---- MODULE Spec2Model ----
(***************************************************************************)
(* A model of minecraft-status (rust/src): the status resolution of        *)
(* lib.rs (get_server_status_rust and its callers), the two-protocol race  *)
(* of mcping_common.rs (get_status, get_status_auto) and the week          *)
(* statistics of week_stats.rs (determine_week_stats).                     *)
(*                                                                         *)
(* Strings are sequences of tokens: one token per character for server     *)
(* addresses, and for favicons and texts one token per piece that the code *)
(* tells apart (the media-type prefix, a NUL byte, anything else).         *)
(***************************************************************************)
EXTENDS Integers, Sequences, FiniteSets, TLC

VARIABLES
    folders,              \* directories that exist (fs::create_dir_all)
    cached_favicon_file,  \* folder -> the file "cached_favicon"
    week_stats_file,      \* folder -> the file "week_stats"
    clock,                \* the system clock, unix seconds
    utc_offset,           \* the local time zone's offset from UTC, seconds
    pc,                   \* where the caller of the library is
    last,                 \* history: the call that has just returned
    ncalls,               \* calls made so far
    java_thread,          \* the thread get_status_auto spawns for Java
    bedrock_thread,       \* the thread get_status_auto spawns for Bedrock
    chan,                 \* the mpsc channel's queue
    rx_alive,             \* the receiver has not been dropped
    recvs,                \* iterations of `for _ in 0..2` done
    sent,                 \* history: the threads' results, in order of completion
    status,               \* what get_status_auto returned
    ping_stats,           \* the ping_history of a PingStatsOnDisk value
    op,                   \* history: the method last called on it, and its result
    proc,                 \* each concurrent caller's place in get_server_status_rust
    seen                  \* history: what the calls so far probed and recorded

vars == <<folders, cached_favicon_file, week_stats_file, clock, utc_offset,
          pc, last, ncalls, java_thread, bedrock_thread, chan, rx_alive,
          recvs, sent, status, ping_stats, op, proc, seen>>

files == <<folders, cached_favicon_file, week_stats_file, clock, utc_offset,
           last, ncalls>>

race == <<java_thread, bedrock_thread, chan, rx_alive, recvs, sent, status>>

object == <<ping_stats, op>>

tracked == <<proc, seen>>

----------------------------------------------------------------------------
(* Option and Result *)

None == <<"None">>
Some(x) == <<"Some", x>>
IsSome(o) == o[1] = "Some"
Ok(v) == <<"Ok", v>>
Err(e) == <<"Err", e>>
IsOk(r) == r[1] = "Ok"
IsErr(r) == r[1] = "Err"

Range(s) == {s[i] : i \in 1..Len(s)}

Max2(a, b) == IF a >= b THEN a ELSE b

----------------------------------------------------------------------------
(* Bounds and inputs *)

\* Calls of get_server_status_rust in one behaviour.
MaxCalls == 2

\* The largest i64 of the model, in place of 2^63 - 1.
I64Max == 127

NUL == "\\0"
MediaTypePrefix == "data:image/png;base64,"

Protocols == {"Java", "Bedrock", "Auto"}

\* "", and spellings that to_lowercase and the two replace calls fold.
Addresses == {<<>>, <<"m", ".", "c">>, <<"M", ".", "c">>, <<"M", "_", "c">>}

Containers == {<<>>, <<"/", "g">>}

\* What a Java server may send as its favicon.
Favicons ==
    {None, Some(<<"abase64string">>),
     Some(<<MediaTypePrefix, MediaTypePrefix, "other">>),
     Some(<<"abase64string", NUL>>)}

Motd == <<"hello">>
MotdWithNul == <<"hello", NUL>>

VersionName == <<"1.16.5">>

\* <<online, max>> of a Java server; online may exceed max.
PlayerCounts == <<12, 10>>

\* mcping::Error, as the probes return it.
ProbeErrors ==
    {<<"DnsLookupFailed">>, <<"IoError", "TimedOut", "connection timed out">>,
     <<"InvalidPacket">>}

\* The instants at which the environment lets a call read the clock.
Epoch == 1613290363
Instants == {Epoch, Epoch + 60 * 60 * 24, Epoch + 60 * 60 * 24 * 11}

UtcOffsets == {-18000}

----------------------------------------------------------------------------
(* mcping's responses (the collaborator's types, as mcping_common reads them) *)

\* A Java response for each favicon, and one whose description holds a NUL.
JavaResponses ==
    {[favicon |-> f, players |-> PlayerCounts, description |-> Motd,
      version_name |-> VersionName] : f \in Favicons}
    \cup {[favicon |-> Some(<<"abase64string">>), players |-> PlayerCounts,
           description |-> MotdWithNul, version_name |-> VersionName]}

\* Bedrock responses with and without a player count, and one with a NUL.
BedrockResponses ==
    {[players_online |-> o, players_max |-> Some(20), motd_1 |-> Motd,
      version_name |-> VersionName] : o \in {None, Some(4)}}
    \cup {[players_online |-> Some(4), players_max |-> Some(20),
           motd_1 |-> MotdWithNul, version_name |-> VersionName]}

UnwrapOr(o, d) == IF IsSome(o) THEN o[2] ELSE d

from_java(v) ==
    [protocol_type |-> "Java",
     version_name |-> v.version_name,
     online |-> v.players[1],
     max |-> v.players[2],
     motd |-> v.description,
     favicon |-> v.favicon]

from_bedrock(v) ==
    [protocol_type |-> "Bedrock",
     version_name |-> v.version_name,
     online |-> UnwrapOr(v.players_online, 0),
     max |-> UnwrapOr(v.players_max, 0),
     motd |-> <<"motd1: ">> \o v.motd_1 \o <<" motd2: ">>,
     favicon |-> None]

----------------------------------------------------------------------------
(* Strings *)

to_lowercase_char(c) ==
    CASE c = "M" -> "m"
      [] c = "C" -> "c"
      [] OTHER -> c

to_lowercase(s) == [i \in 1..Len(s) |-> to_lowercase_char(s[i])]

replace(s, from, to) == [i \in 1..Len(s) |-> IF s[i] = from THEN to ELSE s[i]]

\* str::strip_prefix: the prefix is removed once.
strip_prefix_or_self(s, p) == IF Len(s) > 0 /\ s[1] = p THEN Tail(s) ELSE s

\* str::trim_start_matches: the prefix is removed as often as it leads.
RECURSIVE trim_start_matches(_, _)
trim_start_matches(s, p) ==
    IF Len(s) > 0 /\ s[1] = p THEN trim_start_matches(Tail(s), p) ELSE s

process_favicon(favicon) == trim_start_matches(favicon, MediaTypePrefix)

\* CString::new fails on an interior NUL byte.
CStringNew(s) == IF NUL \in Range(s) THEN Err("NulError") ELSE Ok(s)

----------------------------------------------------------------------------
(* Files: absent, or a text.  serde_json's texts are modelled by the value   *)
(* they were written from; any other text does not deserialize.            *)

Absent == <<"absent">>
File(text) == <<"file", text>>
Exists(f) == f[1] = "file"

\* The files of one name are a function from the folders that hold one to
\* its text: Path::exists and fs::read, and fs::write.
read(fs, folder) == IF folder \in DOMAIN fs THEN File(fs[folder]) ELSE Absent
write(fs, folder, file) ==
    IF Exists(file)
    THEN [f \in DOMAIN fs \cup {folder} |-> IF f = folder THEN file[2] ELSE fs[f]]
    ELSE fs

to_string(value) == <<"json", value>>
from_slice(text) == IF text[1] = "json" THEN Ok(text[2]) ELSE Err("serde_json")

Garbage == <<"getrekt">>

\* struct CachedFavicon { favicon: Option<String> }
CachedFavicon(favicon) == [favicon |-> favicon]

----------------------------------------------------------------------------
(* identicon.rs *)

\* IdenticonInput::to_string: format!("{:?}{}", protocol_type, address)
IdenticonInput_to_string(protocol_type, address) == <<protocol_type>> \o address

\* The PNG is encoded into a Vec, which does not fail; the text is base64.
make_base64_identicon(protocol_type, address) ==
    Some(<<"identicon">> \o IdenticonInput_to_string(protocol_type, address))

----------------------------------------------------------------------------
(* lib.rs: FaviconRaw *)

ServerProvided(s) == <<"ServerProvided", s>>
Generated(s) == <<"Generated", s>>
NoFavicon == <<"NoFavicon">>

make_generated(protocol_type, address) ==
    LET s == make_base64_identicon(protocol_type, address)
        c == IF IsSome(s) THEN CStringNew(s[2]) ELSE Err("none")
    IN  IF IsOk(c) THEN Generated(c[2]) ELSE NoFavicon

\* from_data_and_options without .map(process_favicon).
from_data_and_options_raw(server_favicon, protocol_type, address, always_use_identicon) ==
    IF always_use_identicon
    THEN make_generated(protocol_type, address)
    ELSE LET c == IF IsSome(server_favicon) THEN CStringNew(server_favicon[2])
                                            ELSE Err("none")
         IN  IF IsOk(c)
             THEN ServerProvided(c[2])
             ELSE make_generated(protocol_type, address)

\* from_data_and_options without its always_use_identicon branch.
from_data_and_options_no_identicon(server_favicon, protocol_type, address, always_use_identicon) ==
    LET p == IF IsSome(server_favicon)
             THEN Some(process_favicon(server_favicon[2]))
             ELSE None
        c == IF IsSome(p) THEN CStringNew(p[2]) ELSE Err("none")
    IN  IF IsOk(c)
        THEN ServerProvided(c[2])
        ELSE make_generated(protocol_type, address)

from_data_and_options(server_favicon, protocol_type, address, always_use_identicon) ==
    IF always_use_identicon
    THEN make_generated(protocol_type, address)
    ELSE LET p == IF IsSome(server_favicon)
                  THEN Some(process_favicon(server_favicon[2]))
                  ELSE None
             c == IF IsSome(p) THEN CStringNew(p[2]) ELSE Err("none")
         IN  IF IsOk(c)
             THEN ServerProvided(c[2])
             ELSE make_generated(protocol_type, address)

\* McInfoRaw::new; the three CString::new(..).unwrap() panic on a NUL byte.
Panic == <<"Panic">>
McInfoRaw_new(st, protocol_type, address, always_use_identicon) ==
    IF IsErr(CStringNew(st.motd)) \/ IsErr(CStringNew(st.version_name))
    THEN Panic
    ELSE Ok([protocol_type |-> st.protocol_type,
             online |-> st.online,
             max |-> st.max,
             description |-> st.motd,
             version_name |-> st.version_name,
             favicon |-> from_data_and_options(st.favicon, protocol_type,
                                               address, always_use_identicon)])

----------------------------------------------------------------------------
(* week_stats.rs.  ping_history: BTreeMap<i64, HistoryEntry> is a function   *)
(* from its keys to [online, max].                                         *)

TrimDays == 10

days(n) == 60 * 60 * 24 * n

EmptyHistory == [t \in {} |-> [online |-> 0, max |-> 0]]

\* PingStatsOnDisk: Default, and what the file's text deserializes to.
PingStatsOnDisk(ping_history) == [ping_history |-> ping_history]

\* trim_outdated keeping only the entries after the cutoff.
trim_outdated_after(ping_history, now) ==
    LET cutoff_timestamp == now - days(TrimDays)
    IN  [t \in {k \in DOMAIN ping_history : k > cutoff_timestamp} |->
            ping_history[t]]

\* BTreeMap::split_off(&cutoff) returns the entries at or after the key.
trim_outdated(ping_history, now) ==
    LET cutoff_timestamp == now - days(TrimDays)
    IN  [t \in {k \in DOMAIN ping_history : k >= cutoff_timestamp} |->
            ping_history[t]]

\* add_data with or_insert in place of or_default().update(): an entry
\* already at the key is kept.
add_data_or_insert(ping_history, now, current_online, current_max) ==
    [t \in DOMAIN ping_history \cup {now} |->
        IF t \in DOMAIN ping_history
        THEN ping_history[t]
        ELSE [online |-> current_online, max |-> current_max]]

\* add_data whose update keeps the larger of the old and the new values.
add_data_keeping_peaks(ping_history, now, current_online, current_max) ==
    [t \in DOMAIN ping_history \cup {now} |->
        IF t = now
        THEN IF now \in DOMAIN ping_history
             THEN [online |-> Max2(ping_history[now].online, current_online),
                   max |-> Max2(ping_history[now].max, current_max)]
             ELSE [online |-> current_online, max |-> current_max]
        ELSE ping_history[t]]

\* entry(now).or_default().update(current_online, current_max)
add_data(ping_history, now, current_online, current_max) ==
    [t \in DOMAIN ping_history \cup {now} |->
        IF t = now
        THEN [online |-> current_online, max |-> current_max]
        ELSE ping_history[t]]

\* i64 values are integers of I64Min..I64Max; player counts are of that
\* width here.  An addition that leaves the range wraps where the build has
\* no overflow checks and panics where it has them.
I64Min == -I64Max - 1
wrapping(x) == ((x - I64Min) % (I64Max - I64Min + 1)) + I64Min

\* total_online += v.online, over the keys in ascending order.
RECURSIVE total_online(_, _)
total_online(ping_history, keys) ==
    IF keys = {} THEN 0
    ELSE LET k == CHOOSE x \in keys : \A y \in keys : y <= x
         IN  wrapping(total_online(ping_history, keys \ {k})
                      + ping_history[k].online)

\* Some `total_online += v.online` of the loop leaves the range of i64.
RECURSIVE total_online_overflows(_, _)
total_online_overflows(ping_history, keys) ==
    /\ keys # {}
    /\ LET k == CHOOSE x \in keys : \A y \in keys : y <= x
       IN  \/ total_online_overflows(ping_history, keys \ {k})
           \/ total_online(ping_history, keys \ {k}) + ping_history[k].online
                  \notin I64Min..I64Max

RECURSIVE peak(_, _, _)
peak(ping_history, keys, field) ==
    IF keys = {} THEN 0
    ELSE LET k == CHOOSE x \in keys : TRUE
         IN  Max2(ping_history[k][field], peak(ping_history, keys \ {k}, field))

\* i64 division truncates toward zero.
i64_div(a, b) == IF a >= 0 THEN a \div b ELSE -((-a) \div b)

\* The loop of range_stats over the keys in the range, and its RangeStats.
RangeStats(ping_history, keys) ==
    LET num_entries == Cardinality(keys)
    IN  [average_online |->
            IF num_entries = 0 THEN 0
            ELSE i64_div(total_online(ping_history, keys), num_entries),
         peak_online |-> peak(ping_history, keys, "online"),
         peak_max |-> peak(ping_history, keys, "max")]

\* range_stats over lo..hi (closed = FALSE) or lo..=hi (closed = TRUE)
range_stats(ping_history, lo, hi, closed) ==
    RangeStats(ping_history,
               {k \in DOMAIN ping_history :
                   k >= lo /\ (IF closed THEN k <= hi ELSE k < hi)})

range_stats_overflows(ping_history, lo, hi, closed) ==
    total_online_overflows(ping_history,
                           {k \in DOMAIN ping_history :
                               k >= lo /\ (IF closed THEN k <= hi ELSE k < hi)})

RECURSIVE max_of(_, _)
max_of(daily_stats, field) ==
    IF Len(daily_stats) = 0 THEN 0
    ELSE LET rest == max_of(Tail(daily_stats), field)
         IN  IF Len(daily_stats) = 1 THEN daily_stats[1][field]
             ELSE Max2(daily_stats[1][field], rest)

\* WeekStats with its peaks taken over daily_stats[..7], today left out.
WeekStats_before_today(daily_stats) ==
    [daily_stats |-> daily_stats,
     peak_online |-> max_of(SubSeq(daily_stats, 1, 7), "peak_online"),
     peak_max |-> max_of(SubSeq(daily_stats, 1, 7), "peak_max")]

\* struct WeekStats, its peaks taken over daily_stats
WeekStats(daily_stats) ==
    [daily_stats |-> daily_stats,
     peak_online |-> max_of(daily_stats, "peak_online"),
     peak_max |-> max_of(daily_stats, "peak_max")]

\* week_stats whose last range begins a day before today's midnight.
week_stats_overlapping(ping_history, now_timestamp, seconds_from_midnight) ==
    LET today_midnight == now_timestamp - seconds_from_midnight
    IN  WeekStats(
            [i \in 1..8 |->
                IF i < 8
                THEN range_stats(ping_history, today_midnight - days(8 - i),
                                 today_midnight - days(7 - i), FALSE)
                ELSE range_stats(ping_history, today_midnight - days(1),
                                 now_timestamp, TRUE)])

\* daily_stats[0..=7] of the code is daily_stats[1..8] here.
week_stats(ping_history, now_timestamp, seconds_from_midnight) ==
    LET today_midnight == now_timestamp - seconds_from_midnight
    IN  WeekStats(
            [i \in 1..8 |->
                IF i < 8
                THEN range_stats(ping_history, today_midnight - days(8 - i),
                                 today_midnight - days(7 - i), FALSE)
                ELSE range_stats(ping_history, today_midnight, now_timestamp, TRUE)])

\* One of the eight range_stats of week_stats overflows.
week_stats_overflows(ping_history, now_timestamp, seconds_from_midnight) ==
    LET today_midnight == now_timestamp - seconds_from_midnight
    IN  \/ \E i \in 1..7 :
              range_stats_overflows(ping_history, today_midnight - days(8 - i),
                                    today_midnight - days(7 - i), FALSE)
        \/ range_stats_overflows(ping_history, today_midnight, now_timestamp, TRUE)

\* chrono: Local::now().num_seconds_from_midnight()
num_seconds_from_midnight(timestamp, offset) == (timestamp + offset) % days(1)

\* determine_week_stats with `?` in place of unwrap_or_default(): a file
\* that does not parse is an error, and is left as it is.
determine_week_stats_strict(file, now_local, now_utc, offset, current_online, current_max) ==
    LET parsed == IF Exists(file) THEN from_slice(file[2])
                                  ELSE Ok(PingStatsOnDisk(EmptyHistory))
        trimmed == trim_outdated(parsed[2].ping_history, now_utc)
        added == add_data(trimmed, now_utc, current_online, current_max)
        stats == week_stats(added, now_local,
                            num_seconds_from_midnight(now_local, offset))
    IN  IF IsErr(parsed)
        THEN <<Err(parsed[2]), file>>
        ELSE <<Ok(stats), File(to_string(PingStatsOnDisk(added)))>>

\* determine_week_stats that never reads the file: every call starts from
\* the default.
determine_week_stats_fresh(file, now_local, now_utc, offset, current_online, current_max) ==
    LET added == add_data(EmptyHistory, now_utc, current_online, current_max)
        stats == week_stats(added, now_local,
                            num_seconds_from_midnight(now_local, offset))
    IN  <<Ok(stats), File(to_string(PingStatsOnDisk(added)))>>

\* determine_week_stats(path, current_online, current_max), the two clock
\* readings given: now_local = Local::now(), then now_utc = Utc::now().
\* Returns <<the Result, the file afterwards>>.
determine_week_stats(file, now_local, now_utc, offset, current_online, current_max) ==
    LET parsed == IF Exists(file) THEN from_slice(file[2]) ELSE Err("absent")
        data == IF IsOk(parsed) THEN parsed[2].ping_history ELSE EmptyHistory
        trimmed == trim_outdated(data, now_utc)
        added == add_data(trimmed, now_utc, current_online, current_max)
        stats == week_stats(added, now_local,
                            num_seconds_from_midnight(now_local, offset))
    IN  <<Ok(stats), File(to_string(PingStatsOnDisk(added)))>>

----------------------------------------------------------------------------
(* mcping_common.rs: get_status and get_status_auto *)

\* What a probe ends with: mcping's Ok or Err, or a panic inside mcping.
Thread_panicked == <<"panicked">>
JavaResults ==
    {Ok(r) : r \in JavaResponses} \cup {Err(e) : e \in ProbeErrors}
    \cup {Thread_panicked}
BedrockResults ==
    {Ok(r) : r \in BedrockResponses} \cup {Err(e) : e \in ProbeErrors}
    \cup {Thread_panicked}

\* .map(|(latency, response)| ResponseType::Java((latency, response)))
ResponseType(protocol, result) ==
    IF IsOk(result) THEN Ok(<<protocol, result[2]>>) ELSE result

\* The match of get_status_auto on a received ResponseType.
from_response_type(response_type) ==
    IF response_type[1] = "Java"
    THEN from_java(response_type[2])
    ELSE from_bedrock(response_type[2])

NeitherThread ==
    <<"IoError", "TimedOut", "neither thread returned a valid response">>

\* `if let Ok(Ok(response_type)) = rx.recv()`
is_response(received) == IsOk(received) /\ IsOk(received[2])

\* `for _ in 0..2`
LoopIterations == 2

\* get_status with every error of a probe turned into the one error of
\* get_status_auto.
get_status_single_collapsed(protocol_type, result) ==
    IF IsOk(result)
    THEN Ok(IF protocol_type = "Java" THEN from_java(result[2])
                                      ELSE from_bedrock(result[2]))
    ELSE IF IsErr(result) THEN Err(NeitherThread) ELSE result

\* get_status for Java and for Bedrock: the probe's result, mapped.
get_status_single(protocol_type, result) ==
    IF IsOk(result)
    THEN Ok(IF protocol_type = "Java" THEN from_java(result[2])
                                      ELSE from_bedrock(result[2]))
    ELSE result

\* get_status_auto as a function of what the two threads end with and of
\* which ends first: the queue holds what was sent, in that order, and
\* recv gives Err(RecvError) once it is empty and both Senders are dropped.
\* A first Ok returns before the other thread's result is looked at.
get_status_auto(java_result, bedrock_result, java_first) ==
    LET j == ResponseType("Java", java_result)
        b == ResponseType("Bedrock", bedrock_result)
        order == IF java_first THEN <<j, b>> ELSE <<b, j>>
        queue == SelectSeq(order, LAMBDA m : m # Thread_panicked)
        received(i) == IF i <= Len(queue) THEN Ok(queue[i]) ELSE Err("RecvError")
    IN  IF is_response(received(1))
        THEN Ok(from_response_type(received(1)[2][2]))
        ELSE IF is_response(received(2))
             THEN Ok(from_response_type(received(2)[2][2]))
             ELSE Err(NeitherThread)

\* The errors among the results of the probes of a probe phase.
errors_of(results) == {r[2] : r \in {x \in results : IsErr(x)}}

\* A probe phase: what mcping_get_status_wrapper returns or ends with, and,
\* when that is an Err, the errors the probes themselves ended with.
ProbePhase(st, results) ==
    [status |-> st, errors |-> IF IsErr(st) THEN errors_of(results) ELSE {}]

JavaPhases ==
    {ProbePhase(get_status_single("Java", r), {r}) : r \in JavaResults}
BedrockPhases ==
    {ProbePhase(get_status_single("Bedrock", r), {r}) : r \in BedrockResults}
AutoPhases ==
    {ProbePhase(get_status_auto(j, b, f), {j, b}) :
        j \in JavaResults, b \in BedrockResults, f \in BOOLEAN}

\* get_status: the match on protocol_type.
get_status(protocol_type) ==
    CASE protocol_type = "Java" -> JavaPhases
      [] protocol_type = "Bedrock" -> BedrockPhases
      [] OTHER -> AutoPhases

----------------------------------------------------------------------------
(* lib.rs: get_server_status_rust *)

\* anyhow::Error values
anyhow(msg) == <<"anyhow", msg>>
from_mcping(e) == <<"mcping::Error", e>>
with_context(context, e) == <<"context", context, e>>

Online(mcinfo, stats) == <<"Online", mcinfo, stats>>
Offline(favicon, stats) == <<"Offline", favicon, stats>>
Unreachable(error_string) == <<"Unreachable", error_string>>

\* The Display of ProtocolType that format!("{}_{}", .., protocol_type) uses.
ProtocolType_fmt(protocol_type) == <<protocol_type>>

\* server_folder without to_lowercase.
server_folder_as_spelled(app_group_container, address, protocol_type) ==
    <<app_group_container, "mc_server_data",
      replace(replace(address, ".", "_"), ":", "_")
          \o <<"_">> \o ProtocolType_fmt(protocol_type)>>

server_folder(app_group_container, address, protocol_type) ==
    <<app_group_container, "mc_server_data",
      replace(replace(to_lowercase(address), ".", "_"), ":", "_")
          \o <<"_">> \o ProtocolType_fmt(protocol_type)>>

\* validate without its second early return.
validate_address_only(address, app_group_container) ==
    IF address = <<>> THEN Some(anyhow("empty server address")) ELSE None

\* The two early returns; None when the arguments pass.
validate(address, app_group_container) ==
    IF address = <<>> THEN Some(anyhow("empty server address"))
    ELSE IF app_group_container = <<>>
         THEN Some(anyhow("empty app group container path"))
         ELSE None

\* The CachedFavicon of a response with process_favicon left out.
cached_favicon_raw(response) == CachedFavicon(response.favicon)

\* "Cache the favicon": the CachedFavicon written on a response.
cached_favicon_of(response) ==
    CachedFavicon(IF IsSome(response.favicon)
                  THEN Some(process_favicon(response.favicon[2]))
                  ELSE None)

\* on_response leaving the cached favicon alone when the caller asked for an
\* identicon.
on_response_identicon_uncached(c, response, dws) ==
    LET mcinfo == McInfoRaw_new(response, c.protocol_type, c.address,
                                c.always_use_identicon)
    IN  [result |-> IF IsErr(dws[1]) THEN dws[1]
                    ELSE IF IsOk(mcinfo) THEN Ok(Online(mcinfo[2], dws[1][2]))
                                         ELSE Panic,
         favicon_file |-> IF c.always_use_identicon THEN Absent
                          ELSE File(to_string(cached_favicon_of(response))),
         stats_file |-> dws[2],
         read_clock |-> TRUE]

\* on_response caching the favicon only of a response that has one.
on_response_caching_some(c, response, dws) ==
    LET mcinfo == McInfoRaw_new(response, c.protocol_type, c.address,
                                c.always_use_identicon)
    IN  [result |-> IF IsErr(dws[1]) THEN dws[1]
                    ELSE IF IsOk(mcinfo) THEN Ok(Online(mcinfo[2], dws[1][2]))
                                         ELSE Panic,
         favicon_file |-> IF IsSome(response.favicon)
                          THEN File(to_string(cached_favicon_of(response)))
                          ELSE Absent,
         stats_file |-> dws[2],
         read_clock |-> TRUE]

\* The Ok arm of the match on the probe's result, given what
\* determine_week_stats returned for the folder's week stats file; its `?`
\* returns an Err before McInfoRaw::new is reached.
\* Returns the call's result and the two files afterwards.
on_response(c, response, dws) ==
    LET mcinfo == McInfoRaw_new(response, c.protocol_type, c.address,
                                c.always_use_identicon)
    IN  [result |-> IF IsErr(dws[1]) THEN dws[1]
                    ELSE IF IsOk(mcinfo) THEN Ok(Online(mcinfo[2], dws[1][2]))
                                         ELSE Panic,
         favicon_file |-> File(to_string(cached_favicon_of(response))),
         stats_file |-> dws[2],
         read_clock |-> TRUE]

\* The Offline result, given what determine_week_stats(path, 0, 0) returned.
offline(c, cached, dws) ==
    [result |-> IF IsErr(dws[1]) THEN dws[1]
                ELSE Ok(Offline(from_data_and_options(
                                    cached.favicon, c.protocol_type, c.address,
                                    c.always_use_identicon),
                                dws[1][2])),
     favicon_file |-> File(to_string(cached)),
     stats_file |-> dws[2],
     read_clock |-> TRUE]

\* The Err arm with the week stats determined before the cached favicon is
\* looked for.
on_error_recording(c, e, favicon_file, stats_file, now_local, now_utc, offset) ==
    LET dws == determine_week_stats(stats_file, now_local, now_utc, offset, 0, 0)
        parsed == IF Exists(favicon_file) THEN from_slice(favicon_file[2])
                                          ELSE Err("absent")
    IN  IF IsOk(parsed)
        THEN [offline(c, parsed[2], dws) EXCEPT !.favicon_file = favicon_file]
        ELSE [result |-> Err(from_mcping(e)),
              favicon_file |-> favicon_file,
              stats_file |-> dws[2],
              read_clock |-> TRUE]

\* The Err arm of the match on the probe's result.
on_error(c, e, favicon_file, stats_file, now_local, now_utc, offset) ==
    IF Exists(favicon_file)
    THEN LET parsed == from_slice(favicon_file[2])
         IN  IF IsErr(parsed)
             THEN [result |-> Err(with_context(
                                 "deserializing cached favicon data", parsed[2])),
                   favicon_file |-> favicon_file,
                   stats_file |-> stats_file,
                   read_clock |-> FALSE]
             ELSE [offline(c, parsed[2],
                           determine_week_stats(stats_file, now_local, now_utc,
                                                offset, 0, 0))
                   EXCEPT !.favicon_file = favicon_file]
    ELSE [result |-> Err(from_mcping(e)),
          favicon_file |-> favicon_file,
          stats_file |-> stats_file,
          read_clock |-> FALSE]

\* The match on the probe's result (lib.rs 412-474), given the two files of
\* the server's folder and the clock readings determine_week_stats makes.
match_status(c, st, favicon_file, stats_file, now_local, now_utc, offset) ==
    IF IsOk(st)
    THEN on_response(c, st[2],
                     determine_week_stats(stats_file, now_local, now_utc, offset,
                                          st[2].online, st[2].max))
    ELSE on_error(c, st[2], favicon_file, stats_file, now_local, now_utc, offset)

\* get_server_status without catch_unwind: a panic leaves the function.
get_server_status_unwinding(result) ==
    IF IsOk(result) THEN result[2]
    ELSE IF IsErr(result)
         THEN Unreachable(<<"failed to ping server: ", result[2]>>)
         ELSE Panic

\* get_server_status and get_server_status_catch_panic: a ServerStatus
\* whatever get_server_status_rust ends with.
get_server_status(result) ==
    IF IsOk(result) THEN result[2]
    ELSE IF IsErr(result)
         THEN Unreachable(<<"failed to ping server: ", result[2]>>)
         ELSE Unreachable(<<"failed to ping server: ",
                            anyhow("a panic occurred in rust code")>>)

----------------------------------------------------------------------------
(* The calls of the library, one at a time *)

NoCall == [call |-> "none"]
NoStatus == <<"none">>
NoProbe == [status |-> NoStatus, errors |-> {}]
NoOp == [name |-> "none"]

\* The callers that may be inside get_server_status_rust at once (the widget
\* and the app, each a process with the library in it).
Procs == {"widget", "app"}

\* A caller outside get_server_status_rust.
NotCalling ==
    [pc |-> "idle", call |-> NoCall, st |-> NoStatus, favicon_file |-> Absent,
     stats_file |-> Absent, now |-> 0, result |-> NoStatus, done |-> <<>>]

\* No call yet: no identity probed, none returned Online, no sample recorded.
NothingSeen == [probed |-> {}, online |-> {}, samples |-> {}]

\* Before the first call: no folder, no file, no thread.
InitCalls ==
    /\ folders = {}
    /\ cached_favicon_file = <<>>
    /\ week_stats_file = <<>>
    /\ clock = Epoch
    /\ utc_offset \in UtcOffsets
    /\ pc = "idle"
    /\ last = NoCall
    /\ ncalls = 0
    /\ java_thread = "none"
    /\ bedrock_thread = "none"
    /\ chan = <<>>
    /\ rx_alive = FALSE
    /\ recvs = 0
    /\ sent = <<>>
    /\ status = NoStatus
    /\ proc = [p \in Procs |-> NotCalling]
    /\ seen = NothingSeen

Init ==
    /\ InitCalls
    /\ ping_stats = EmptyHistory
    /\ op = NoOp

\* get_server_status_rust, whole.  `probe` is what the probe phase ends with
\* and `elapsed` the seconds between the two clock readings of
\* determine_week_stats.  `last` keeps the call, its result and the file
\* system it started from.
get_server_status_rust(address, protocol_type, always_use_identicon, app_group_container, probe, elapsed) ==
    LET c == [address |-> address,
              protocol_type |-> protocol_type,
              always_use_identicon |-> always_use_identicon,
              app_group_container |-> app_group_container]
        before == [folders |-> folders,
                   cached_favicon_file |-> cached_favicon_file,
                   week_stats_file |-> week_stats_file,
                   clock |-> clock]
        invalid == validate(address, app_group_container)
        folder == server_folder(app_group_container, address, protocol_type)
    IN
    /\ pc = "idle"
    /\ ncalls < MaxCalls
    /\ ncalls' = ncalls + 1
    /\ pc' = "returned"
    /\ IF IsSome(invalid)
       THEN /\ probe = NoProbe
            /\ elapsed = 0
            /\ last' = [call |-> c, probe |-> probe, before |-> before,
                        folder |-> folder, result |-> Err(invalid[2])]
            /\ UNCHANGED <<folders, cached_favicon_file, week_stats_file, clock>>
       ELSE /\ probe \in get_status(protocol_type)
            /\ folders' = folders \cup {folder}
            /\ IF probe.status = Thread_panicked
               THEN /\ elapsed = 0
                    /\ last' = [call |-> c, probe |-> probe, before |-> before,
                                folder |-> folder, result |-> Panic]
                    /\ UNCHANGED <<cached_favicon_file, week_stats_file, clock>>
               ELSE \E m \in {match_status(c, probe.status,
                                           read(cached_favicon_file, folder),
                                           read(week_stats_file, folder),
                                           clock, clock + elapsed, utc_offset)} :
                    /\ elapsed \in {0, 1}
                    /\ m.read_clock \/ elapsed = 0
                    /\ last' = [call |-> c, probe |-> probe, before |-> before,
                                folder |-> folder, result |-> m.result]
                    /\ cached_favicon_file' =
                           write(cached_favicon_file, folder, m.favicon_file)
                    /\ week_stats_file' =
                           write(week_stats_file, folder, m.stats_file)
                    /\ clock' = clock + elapsed
    /\ UNCHANGED utc_offset
    /\ UNCHANGED race
    /\ UNCHANGED object
    /\ UNCHANGED proc

\* A call by the host, with any arguments and any behaviour of the probes.
Resolve ==
    /\ pc = "idle"
    /\ \E a \in Addresses, p \in Protocols, i \in BOOLEAN, c \in Containers :
          \E probe \in {NoProbe} \cup get_status(p), e \in {0, 1} :
             get_server_status_rust(a, p, i, c, probe, e)

Call ==
    /\ Resolve
    /\ UNCHANGED seen

\* The caller takes the result (free_status_response) and may call again.
Return ==
    /\ pc = "returned"
    /\ pc' = "idle"
    /\ last' = NoCall
    /\ UNCHANGED <<folders, cached_favicon_file, week_stats_file, clock,
                   utc_offset, ncalls>>
    /\ UNCHANGED race
    /\ UNCHANGED object
    /\ UNCHANGED tracked

\* The environment: time passes between calls.
Tick(t) ==
    /\ pc = "idle"
    /\ ncalls < MaxCalls
    /\ t \in Instants
    /\ t > clock
    /\ clock' = t
    /\ UNCHANGED <<folders, cached_favicon_file, week_stats_file, utc_offset,
                   pc, last, ncalls>>
    /\ UNCHANGED race
    /\ UNCHANGED object
    /\ UNCHANGED tracked

\* The environment: a file of a server's folder is overwritten with text
\* that does not deserialize (as week_stats.rs 347 does).
CorruptFavicon(folder) ==
    /\ pc = "idle"
    /\ ncalls < MaxCalls
    /\ folder \in DOMAIN cached_favicon_file
    /\ cached_favicon_file[folder] # Garbage
    /\ cached_favicon_file' = write(cached_favicon_file, folder, File(Garbage))
    /\ UNCHANGED <<folders, week_stats_file, clock, utc_offset, pc, last, ncalls>>
    /\ UNCHANGED race
    /\ UNCHANGED object
    /\ UNCHANGED tracked

CorruptWeekStats(folder) ==
    /\ pc = "idle"
    /\ ncalls < MaxCalls
    /\ folder \in DOMAIN week_stats_file
    /\ week_stats_file[folder] # Garbage
    /\ week_stats_file' = write(week_stats_file, folder, File(Garbage))
    /\ UNCHANGED <<folders, cached_favicon_file, clock, utc_offset, pc, last,
                   ncalls>>
    /\ UNCHANGED race
    /\ UNCHANGED object
    /\ UNCHANGED tracked

Next ==
    \/ Call
    \/ Return
    \/ \E t \in Instants : Tick(t)
    \/ \E f \in DOMAIN cached_favicon_file : CorruptFavicon(f)
    \/ \E f \in DOMAIN week_stats_file : CorruptWeekStats(f)

Spec == Init /\ [][Next]_vars

----------------------------------------------------------------------------
(* Properties of a call, stated on the state it returns in: `last` holds    *)
(* the call, what its probes ended with, the file system it started from   *)
(* and its result.                                                         *)

\* A call has returned whose address and container path are not empty.
Valid ==
    /\ last # NoCall
    /\ last.call.address # <<>>
    /\ last.call.app_group_container # <<>>

ProbeSucceeded == Valid /\ IsOk(last.probe.status)
ProbeFailed == Valid /\ IsErr(last.probe.status)

\* The two files of the call's folder as the call found them.
cache_before == read(last.before.cached_favicon_file, last.folder)
stats_before == read(last.before.week_stats_file, last.folder)

Corrupted(file) == Exists(file) /\ IsErr(from_slice(file[2]))

\* What the host is given: the ServerStatus of the call's result.
outcome == get_server_status(last.result)

FilesUnchanged ==
    /\ cached_favicon_file = last.before.cached_favicon_file
    /\ week_stats_file = last.before.week_stats_file

\* C1: a call with a non-empty address and container path ends Online when
\* the probe succeeds, Offline when the probe fails and the folder holds a
\* cached favicon file, and Unreachable with the probe's error when the probe
\* fails and the folder holds none.
C1_OutcomeTable ==
    /\ ProbeSucceeded => outcome[1] = "Online"
    /\ ProbeFailed /\ Exists(cache_before) => outcome[1] = "Offline"
    /\ ProbeFailed /\ ~Exists(cache_before) =>
           /\ outcome[1] = "Unreachable"
           /\ last.result = Err(from_mcping(last.probe.status[2]))

\* C2: a call with an empty address or an empty container path returns one
\* of the two validation errors, starts no probe, and leaves the folders and
\* the files as they were.
C2_ValidationFirst ==
    last # NoCall
    /\ (last.call.address = <<>> \/ last.call.app_group_container = <<>>) =>
        /\ last.result \in {Err(anyhow("empty server address")),
                            Err(anyhow("empty app group container path"))}
        /\ last.probe = NoProbe
        /\ folders = last.before.folders
        /\ FilesUnchanged

\* An empty container path is refused after an earlier call made a folder.
C2_Witness ==
    /\ last # NoCall
    /\ last.call.address # <<>>
    /\ last.call.app_group_container = <<>>
    /\ last.result = Err(anyhow("empty app group container path"))
    /\ folders # {}

\* C3: when the probe fails and the cached favicon file exists but does not
\* deserialize, the call ends as it does when the file is absent: with the
\* probe's error, and with no error of the deserialization.
C3_CorruptCacheAsAbsent ==
    ProbeFailed /\ Corrupted(cache_before) =>
        last.result = Err(from_mcping(last.probe.status[2]))

\* The sample a call records: (online, max) of the response, or (0, 0).
sample ==
    IF IsOk(last.probe.status)
    THEN [online |-> last.probe.status[2].online, max |-> last.probe.status[2].max]
    ELSE [online |-> 0, max |-> 0]

\* The call reached determine_week_stats.
Recorded ==
    \/ ProbeSucceeded
    \/ ProbeFailed /\ Exists(cache_before) /\ ~Corrupted(cache_before)

\* The week stats in an Online or Offline result.
stats_of(result) == result[2][3]

\* C4: when the week stats file exists but does not parse, the call that
\* records a sample returns no error: the week stats in its result are those
\* of the history holding the new sample alone, which are those of
\* determine_week_stats on an absent file, and the file afterwards parses and
\* holds that sample only.
C4_CorruptHistoryFreshStart ==
    Recorded /\ Corrupted(stats_before) =>
        LET alone == [t \in {clock} |-> sample]
            now_local == last.before.clock
            after == read(week_stats_file, last.folder)
        IN  /\ ~IsErr(last.result)
            /\ IsOk(last.result) =>
                /\ stats_of(last.result) =
                       week_stats(alone, now_local,
                                  num_seconds_from_midnight(now_local, utc_offset))
                /\ stats_of(last.result) =
                       determine_week_stats(Absent, now_local, clock, utc_offset,
                                            sample.online, sample.max)[1][2]
            /\ Exists(after)
            /\ from_slice(after[2]) = Ok(PingStatsOnDisk(alone))

\* A sample was recorded over a week stats file that did not parse.
C4_Witness ==
    /\ Recorded
    /\ Corrupted(stats_before)
    /\ IsOk(last.result)
    /\ read(week_stats_file, last.folder) # stats_before

\* C7: for Java, Bedrock and Auto, when the probe fails with an error and
\* the folder holds no cached favicon file, the call's error is the error of
\* one of its probes, so that probes failing in different ways give
\* different errors.
C7_ProbeErrorCarried ==
    ProbeFailed /\ ~Exists(cache_before) /\ last.probe.errors # {} =>
        \E e \in last.probe.errors : last.result = Err(from_mcping(e))

\* C7, amended: for Java and Bedrock the call's error is the error of the
\* probe; for Auto it is the one error of get_status_auto, whatever the
\* errors of the two probes.
C7_ProbeErrorCarriedUnlessAuto ==
    ProbeFailed /\ ~Exists(cache_before) /\ last.probe.errors # {} =>
        IF last.call.protocol_type = "Auto"
        THEN last.result = Err(from_mcping(NeitherThread))
        ELSE /\ last.probe.errors \in {{e} : e \in ProbeErrors}
             /\ \E e \in last.probe.errors : last.result = Err(from_mcping(e))

\* Both probes of an Auto call failed, one of them on the DNS lookup, and
\* the call's error is that of get_status_auto.
C7_Witness ==
    /\ ProbeFailed
    /\ ~Exists(cache_before)
    /\ last.call.protocol_type = "Auto"
    /\ <<"DnsLookupFailed">> \in last.probe.errors
    /\ last.result = Err(from_mcping(NeitherThread))

\* The favicon of a response, normalized.
normalized(favicon) ==
    IF IsSome(favicon)
    THEN Some(trim_start_matches(favicon[2], MediaTypePrefix))
    ELSE None

\* C8: a call whose probe succeeds leaves in its folder's cached favicon
\* file the record of the normalized favicon of the response, whatever the
\* file held, and no other cached favicon file changes; a call whose probe
\* does not succeed leaves every cached favicon file as it was.
C8_CacheIsLatestResponse ==
    last # NoCall =>
        IF ProbeSucceeded
        THEN cached_favicon_file =
                 write(last.before.cached_favicon_file, last.folder,
                       File(to_string(CachedFavicon(
                           normalized(last.probe.status[2].favicon)))))
        ELSE cached_favicon_file = last.before.cached_favicon_file

\* A response without a favicon replaced a cached favicon.
C8_Witness ==
    /\ ProbeSucceeded
    /\ Exists(cache_before)
    /\ ~Corrupted(cache_before)
    /\ IsSome(from_slice(cache_before[2])[2].favicon)
    /\ last.probe.status[2].favicon = None
    /\ from_slice(cached_favicon_file[last.folder])[2].favicon = None

\* C9: when the probe fails and the folder holds no cached favicon file, the
\* call ends Unreachable and creates neither that file nor the week stats
\* file.
C9_NoCacheNoFiles ==
    ProbeFailed /\ ~Exists(cache_before) =>
        /\ outcome[1] = "Unreachable"
        /\ FilesUnchanged

\* The probe failed in a folder that holds neither file, before or after.
C9_Witness ==
    /\ ProbeFailed
    /\ ~Exists(cache_before)
    /\ IsErr(last.result)
    /\ last.folder \in folders
    /\ last.folder \notin DOMAIN cached_favicon_file
    /\ last.folder \notin DOMAIN week_stats_file

\* The call ended Offline, on a cached favicon record.
IsOffline == Valid /\ IsOk(last.result) /\ last.result[2][1] = "Offline"
cached_record == from_slice(cache_before[2])[2]
identicon ==
    Generated(make_base64_identicon(last.call.protocol_type, last.call.address)[2])

\* C10: the favicon of an Offline result is a generated identicon when
\* always_use_identicon is set; otherwise the cached favicon when the record
\* holds one, and a generated identicon when it holds none.
C10_OfflineFavicon ==
    IsOffline =>
        last.result[2][2] =
            IF last.call.always_use_identicon THEN identicon
            ELSE IF IsSome(cached_record.favicon)
                 THEN ServerProvided(cached_record.favicon[2])
                 ELSE identicon

\* C10, amended: otherwise the cached favicon when the record holds one
\* without a NUL byte, and a generated identicon when it holds none or one
\* with a NUL byte.
C10_OfflineFaviconUnlessNul ==
    IsOffline =>
        last.result[2][2] =
            IF last.call.always_use_identicon THEN identicon
            ELSE IF /\ IsSome(cached_record.favicon)
                    /\ NUL \notin Range(cached_record.favicon[2])
                 THEN ServerProvided(cached_record.favicon[2])
                 ELSE identicon

\* An Offline result gave the cached favicon.
C10_Witness ==
    /\ IsOffline
    /\ ~last.call.always_use_identicon
    /\ IsSome(cached_record.favicon)
    /\ last.result[2][2] = ServerProvided(cached_record.favicon[2])

\* The ping history in the week stats file of the call's folder.
history_after == from_slice(week_stats_file[last.folder])[2].ping_history
history_before ==
    IF Exists(stats_before) /\ ~Corrupted(stats_before)
    THEN from_slice(stats_before[2])[2].ping_history
    ELSE EmptyHistory

\* C11: after a call that ends Offline the week stats file of its folder
\* holds, at the second the call read the clock, the entry (online 0, max
\* 0), whatever the file held and also at a key it held already; on an
\* absent file determine_week_stats(path, 0, 0) leaves that entry alone.
C11_OfflineSampleIsZero ==
    IsOffline =>
        /\ last.folder \in DOMAIN week_stats_file
        /\ clock \in DOMAIN history_after
        /\ history_after[clock] = [online |-> 0, max |-> 0]
        /\ from_slice(determine_week_stats(Absent, last.before.clock, clock,
                                           utc_offset, 0, 0)[2][2])
               = Ok(PingStatsOnDisk([t \in {clock} |-> [online |-> 0, max |-> 0]]))

\* An Offline call in the second of an Online one: the entry of 12 players
\* became (0, 0).
C11_Witness ==
    /\ IsOffline
    /\ clock \in DOMAIN history_before
    /\ history_before[clock].online = 12
    /\ history_after[clock] = [online |-> 0, max |-> 0]

\* The call ended Online; the favicon of its response and of its result.
IsOnline == Valid /\ IsOk(last.result) /\ last.result[2][1] = "Online"
response_favicon == last.probe.status[2].favicon

\* C16: the favicon of an Online result is a generated identicon when
\* always_use_identicon is set, whatever the server sent; otherwise the
\* favicon of the response, normalized, when it has one, and a generated
\* identicon only when it has none.
C16_OnlineFavicon ==
    IsOnline =>
        last.result[2][2].favicon =
            IF last.call.always_use_identicon THEN identicon
            ELSE IF IsSome(response_favicon)
                 THEN ServerProvided(normalized(response_favicon)[2])
                 ELSE identicon

\* C16, amended: otherwise the favicon of the response, normalized, when it
\* has one without a NUL byte, and a generated identicon when it has none or
\* one with a NUL byte.
C16_OnlineFaviconUnlessNul ==
    IsOnline =>
        last.result[2][2].favicon =
            IF last.call.always_use_identicon THEN identicon
            ELSE IF /\ IsSome(response_favicon)
                    /\ NUL \notin Range(response_favicon[2])
                 THEN ServerProvided(normalized(response_favicon)[2])
                 ELSE identicon

\* An Online result gave the favicon of the response without the media type
\* it led with.
C16_Witness ==
    /\ IsOnline
    /\ ~last.call.always_use_identicon
    /\ response_favicon = Some(<<MediaTypePrefix, MediaTypePrefix, "other">>)
    /\ last.result[2][2].favicon = ServerProvided(<<"other">>)

\* Two letters that are one letter in two cases; two addresses that differ
\* at most in the case of their letters.
SameLetter(x, y) == x = y \/ {x, y} \in {{"m", "M"}, {"c", "C"}}
DifferOnlyInCase(a, b) ==
    /\ Len(a) = Len(b)
    /\ \A i \in 1..Len(a) : SameLetter(a[i], b[i])

\* The folder a call with the same container path and protocol type would
\* use for another address.
folder_of(address) ==
    server_folder(last.call.app_group_container, address,
                  last.call.protocol_type)

\* C17: a call reads and writes the folder that every spelling of its
\* address in another letter case gives with the same protocol type, so that
\* a failed probe under one spelling ends Offline with the favicon cached
\* under the other.
C17_CaseInsensitiveIdentity ==
    Valid =>
        \A a \in Addresses :
            DifferOnlyInCase(a, last.call.address) =>
                /\ folder_of(a) = last.folder
                /\ ProbeFailed
                   /\ Exists(read(last.before.cached_favicon_file, folder_of(a)))
                   /\ ~Corrupted(read(last.before.cached_favicon_file, folder_of(a)))
                   /\ last.result # Panic
                   => /\ IsOffline
                      /\ last.result[2][2] =
                             from_data_and_options(
                                 from_slice(read(last.before.cached_favicon_file,
                                                 folder_of(a))[2])[2].favicon,
                                 last.call.protocol_type, last.call.address,
                                 last.call.always_use_identicon)

\* A failed probe of "M.c" ended Offline with the favicon that the folder of
\* "m.c" held.
C17_Witness ==
    /\ IsOffline
    /\ last.call.address = <<"M", ".", "c">>
    /\ ~last.call.always_use_identicon
    /\ Exists(read(last.before.cached_favicon_file, folder_of(<<"m", ".", "c">>)))
    /\ last.result[2][2] = ServerProvided(<<"abase64string">>)

\* The identities of the model: a lowercased address and a protocol type.
identity_of(address, protocol_type) == <<to_lowercase(address), protocol_type>>

\* C18: the folder a call reads and writes belongs to its identity alone: a
\* call with the same container path but another lowercased address or
\* another protocol type uses another folder.
C18_NoCrossIdentitySharing ==
    Valid =>
        \A a \in Addresses \ {<<>>}, p \in Protocols :
            identity_of(a, p)
                # identity_of(last.call.address, last.call.protocol_type)
            => server_folder(last.call.app_group_container, a, p) # last.folder

\* The faults of a call: an argument refused, a failed probe with no cached
\* favicon file, a cached favicon file that does not deserialize, a panic.
Refused == last # NoCall /\ ~Valid
Fault ==
    \/ Refused
    \/ ProbeFailed /\ ~Exists(cache_before)
    \/ ProbeFailed /\ Corrupted(cache_before)
    \/ last # NoCall /\ last.result = Panic

stored_record == from_slice(cached_favicon_file[last.folder])[2]
starts_with(s, p) == Len(s) > 0 /\ s[1] = p

\* C28: the favicon a call whose probe succeeded leaves in the cached
\* favicon file does not start with data:image/png;base64, whatever the
\* response held, and process_favicon gives it back unchanged, as it does
\* the process_favicon of the favicon of the response.
C28_StoredFaviconBare ==
    ProbeSucceeded =>
        /\ IsSome(stored_record.favicon) =>
              /\ ~starts_with(stored_record.favicon[2], MediaTypePrefix)
              /\ process_favicon(stored_record.favicon[2]) =
                     stored_record.favicon[2]
        /\ IsSome(response_favicon) =>
              /\ IsSome(stored_record.favicon)
              /\ process_favicon(process_favicon(response_favicon[2])) =
                     process_favicon(response_favicon[2])

\* The response led with the media type twice and the caller asked for an
\* identicon; the stored favicon is the response's, with no media type.
C28_Witness ==
    /\ ProbeSucceeded
    /\ response_favicon = Some(<<MediaTypePrefix, MediaTypePrefix, "other">>)
    /\ stored_record.favicon = Some(<<"other">>)
    /\ last.call.always_use_identicon
    /\ IsOnline

\* What the call that has returned would have ended with and left, had it
\* been made with the other always_use_identicon: the same files found, the
\* same result of the probe, the same readings of the clock.
with_other_option ==
    match_status([last.call EXCEPT !.always_use_identicon = ~@],
                 last.probe.status, cache_before, stats_before,
                 last.before.clock, clock, utc_offset)

\* C30: a call with the other always_use_identicon leaves the same cached
\* favicon file and the same week stats file, and returns the same variant
\* with the same WeekStats, or the same error.
C30_OptionOnlyChangesFavicon ==
    Valid /\ last.probe.status # Thread_panicked =>
        /\ cached_favicon_file =
               write(last.before.cached_favicon_file, last.folder,
                     with_other_option.favicon_file)
        /\ week_stats_file =
               write(last.before.week_stats_file, last.folder,
                     with_other_option.stats_file)
        /\ get_server_status(with_other_option.result)[1] = outcome[1]
        /\ IF IsOk(last.result)
           THEN stats_of(with_other_option.result) = stats_of(last.result)
           ELSE with_other_option.result = last.result

\* A call that asked for an identicon got one and cached the favicon of the
\* response, which it would have returned had it not asked.
C30_Witness ==
    /\ IsOnline
    /\ last.call.always_use_identicon
    /\ response_favicon = Some(<<"abase64string">>)
    /\ last.result[2][2].favicon = identicon
    /\ with_other_option.result[2][2].favicon = ServerProvided(<<"abase64string">>)
    /\ stored_record.favicon = Some(<<"abase64string">>)

----------------------------------------------------------------------------
(* Sequences of calls from an empty data root, the files changed by the    *)
(* calls alone; `seen` keeps what the calls so far did, by identity.       *)

\* What a returned call l adds to `seen`: its identity when its probe gave a
\* response, when it returned Online, and the sample it gave
\* determine_week_stats under the key `now`.
note(s, l, now) ==
    LET id == identity_of(l.call.address, l.call.protocol_type)
        valid == l.call.address # <<>> /\ l.call.app_group_container # <<>>
        cached == read(l.before.cached_favicon_file, l.folder)
        responded == valid /\ IsOk(l.probe.status)
        recorded == \/ responded
                    \/ /\ valid
                       /\ IsErr(l.probe.status)
                       /\ Exists(cached)
                       /\ IsOk(from_slice(cached[2]))
        entry == IF responded
                 THEN <<l.probe.status[2].online, l.probe.status[2].max>>
                 ELSE <<0, 0>>
    IN  [probed |-> s.probed \cup (IF responded THEN {id} ELSE {}),
         online |-> s.online \cup
                    (IF IsOk(l.result) /\ l.result[2][1] = "Online"
                     THEN {id} ELSE {}),
         samples |-> s.samples \cup
                     (IF recorded THEN {<<id, now>> \o entry} ELSE {})]

CallSeen ==
    /\ Resolve
    /\ seen' = note(seen, last', clock')

NextSeq ==
    \/ CallSeen
    \/ Return
    \/ \E t \in Instants : Tick(t)

SpecSeq == Init /\ [][NextSeq]_vars

\* The identity of the call that has returned.
identity == identity_of(last.call.address, last.call.protocol_type)

\* The call ended Unreachable with the error of its probe.
IsUnreachableByProbe ==
    Valid /\ IsErr(last.probe.status)
    /\ last.result = Err(from_mcping(last.probe.status[2]))

\* C23: from an empty data root, a call ends Offline only if an earlier call
\* for its identity got a response from its probe, and ends Unreachable with
\* the error of its probe only if no earlier call for its identity got one.
C23_OfflineOnlyAfterResponse ==
    /\ IsOffline => identity \in seen.probed
    /\ IsUnreachableByProbe => identity \notin seen.probed

\* C29: once a call for an identity has returned Online, a later call for it
\* whose probe fails ends Offline.
C29_OfflineOnceOnline ==
    ProbeFailed /\ identity \in seen.online => outcome[1] = "Offline"

\* A call returned Online for a server that sent no favicon; the probe of
\* the next failed and it ended Offline.
C29_Witness ==
    /\ ProbeFailed
    /\ identity \in seen.online
    /\ cached_record.favicon = None
    /\ outcome[1] = "Offline"

----------------------------------------------------------------------------
(* get_status_auto, thread by thread *)

\* The two thread::spawn; the caller then waits in the loop.
Spawn ==
    /\ pc = "idle"
    /\ pc' = "recv"
    /\ java_thread' = "running"
    /\ bedrock_thread' = "running"
    /\ chan' = <<>>
    /\ rx_alive' = TRUE
    /\ recvs' = 0
    /\ sent' = <<>>
    /\ status' = NoStatus
    /\ UNCHANGED files
    /\ UNCHANGED object
    /\ UNCHANGED tracked

\* tx.send(..) on a channel whose receiver is gone returns an Err, dropped
\* by `let _ =`; a thread that panics sends nothing.  Either way the
\* thread's Sender is dropped as the thread ends.
send(protocol, result) ==
    /\ chan' = IF rx_alive /\ result # Thread_panicked
               THEN Append(chan, ResponseType(protocol, result)) ELSE chan
    /\ sent' = Append(sent, <<protocol, result>>)

JavaThread(result) ==
    /\ java_thread = "running"
    /\ result \in JavaResults
    /\ send("Java", result)
    /\ java_thread' = "finished"
    /\ UNCHANGED <<pc, bedrock_thread, rx_alive, recvs, status>>
    /\ UNCHANGED files
    /\ UNCHANGED object
    /\ UNCHANGED tracked

BedrockThread(result) ==
    /\ bedrock_thread = "running"
    /\ result \in BedrockResults
    /\ send("Bedrock", result)
    /\ bedrock_thread' = "finished"
    /\ UNCHANGED <<pc, java_thread, rx_alive, recvs, status>>
    /\ UNCHANGED files
    /\ UNCHANGED object
    /\ UNCHANGED tracked

\* rx.try_recv() in place of rx.recv(): it never blocks.
recv_ready_polling == TRUE

\* A receive that takes the newest message of the queue.
recv_value_newest == IF chan # <<>> THEN Ok(chan[Len(chan)]) ELSE Err("RecvError")

\* rx.recv_timeout(): a receive that gives up on an empty queue while a
\* thread is still running.
recv_ready_impatient == chan # <<>> \/ java_thread = "finished" \/ bedrock_thread = "finished"

\* A receive that does not see the Senders dropped.
recv_ready_connected == chan # <<>>

\* rx.recv(): the oldest message, or Err(RecvError) once the queue is empty
\* and both Senders are dropped; it blocks otherwise.
recv_ready ==
    \/ chan # <<>>
    \/ java_thread = "finished" /\ bedrock_thread = "finished"

recv_value == IF chan # <<>> THEN Ok(chan[1]) ELSE Err("RecvError")

\* One iteration of `for _ in 0..2`, with the return it may end in; the
\* receiver is dropped on return.
Recv ==
    /\ pc = "recv"
    /\ recv_ready
    /\ chan' = IF chan # <<>> THEN Tail(chan) ELSE chan
    /\ IF is_response(recv_value)
       THEN /\ status' = Ok(from_response_type(recv_value[2][2]))
            /\ pc' = "returned"
            /\ rx_alive' = FALSE
            /\ recvs' = recvs
       ELSE /\ recvs' = recvs + 1
            /\ IF recvs + 1 = LoopIterations
               THEN /\ status' = Err(NeitherThread)
                    /\ pc' = "returned"
                    /\ rx_alive' = FALSE
               ELSE UNCHANGED <<status, pc, rx_alive>>
    /\ UNCHANGED <<java_thread, bedrock_thread, sent>>
    /\ UNCHANGED files
    /\ UNCHANGED object
    /\ UNCHANGED tracked

\* The caller goes on with the result.  A probe thread still running is
\* detached: it shares nothing with the rest of the program.
Detach ==
    /\ pc = "returned"
    /\ pc' = "idle"
    /\ java_thread' = "none"
    /\ bedrock_thread' = "none"
    /\ chan' = <<>>
    /\ sent' = <<>>
    /\ recvs' = 0
    /\ status' = NoStatus
    /\ UNCHANGED rx_alive
    /\ UNCHANGED files
    /\ UNCHANGED object
    /\ UNCHANGED tracked

NextAuto ==
    \/ Spawn
    \/ \E r \in JavaResults : JavaThread(r)
    \/ \E r \in BedrockResults : BedrockThread(r)
    \/ Recv
    \/ Detach

SpecAuto == Init /\ [][NextAuto]_vars

\* The threads' results in `sent`, by protocol; Running when not yet sent.
Running == <<"running">>
result_of(protocol) ==
    IF \E i \in 1..Len(sent) : sent[i][1] = protocol
    THEN sent[CHOOSE i \in 1..Len(sent) : sent[i][1] = protocol][2]
    ELSE Running

\* Under SpecAuto: what the loop returns is what get_status_auto, the
\* function of the two results and their order used by
\* get_server_status_rust above, gives for the results sent so far and some
\* result of a thread still running.
AutoAgrees ==
    pc = "returned" =>
        \E j \in JavaResults, b \in BedrockResults :
            /\ result_of("Java") \in {j, Running}
            /\ result_of("Bedrock") \in {b, Running}
            /\ status = get_status_auto(j, b, sent[1][1] = "Java")

----------------------------------------------------------------------------
(* Properties of get_status_auto, under SpecAuto *)

\* The first response among the results sent so far, converted; None when
\* no thread has sent one.
RECURSIVE first_response(_)
first_response(results) ==
    IF results = <<>> THEN None
    ELSE IF IsOk(results[1][2])
         THEN Some(from_response_type(<<results[1][1], results[1][2][2]>>))
         ELSE first_response(Tail(results))

\* C5: once both threads have ended, whichever ended first: when one probe
\* gave a response and the other did not, get_status_auto has returned that
\* response, converted, with the protocol_type of the probe that gave it;
\* when both gave an error it has returned the one Err.
C5_AutoOneOrNone ==
    pc = "returned" /\ Len(sent) = 2 =>
        LET java == result_of("Java")
            bedrock == result_of("Bedrock")
        IN  /\ IsOk(java) /\ ~IsOk(bedrock) =>
                   /\ status = Ok(from_java(java[2]))
                   /\ status[2].protocol_type = "Java"
            /\ IsOk(bedrock) /\ ~IsOk(java) =>
                   /\ status = Ok(from_bedrock(bedrock[2]))
                   /\ status[2].protocol_type = "Bedrock"
            /\ IsErr(java) /\ IsErr(bedrock) => status = Err(NeitherThread)

\* The Java thread ended first, with an error, and the Bedrock response was
\* returned.
C5_Witness ==
    /\ pc = "returned"
    /\ Len(sent) = 2
    /\ sent[1][1] = "Java"
    /\ IsErr(sent[1][2])
    /\ IsOk(sent[2][2])
    /\ IsOk(status)
    /\ status[2].protocol_type = "Bedrock"

\* C6: get_status_auto returns the response it receives first, at the recv
\* that receives it and whatever the other thread is doing; when both
\* threads give a response it is the one sent first.  The other thread is
\* left to run: it can still end after the return, and its ending then
\* changes neither the returned status nor anything outside the thread.
C6_FirstResponseWins ==
    /\ [](pc = "returned" /\ IsOk(status) =>
             status = Ok(first_response(sent)[2]))
    /\ [][pc = "recv" /\ chan # <<>> /\ IsOk(chan[1]) /\ chan' = Tail(chan) =>
             /\ pc' = "returned"
             /\ status' = Ok(from_response_type(chan[1][2]))]_vars
    /\ [][pc = "returned" /\ pc' = "returned" =>
             /\ status' = status
             /\ UNCHANGED files
             /\ UNCHANGED object
             /\ UNCHANGED tracked
             /\ Len(sent') = Len(sent) + 1]_vars
    /\ [](pc = "returned" /\ java_thread = "running" =>
             ENABLED (\E r \in JavaResults : JavaThread(r)))
    /\ [](pc = "returned" /\ bedrock_thread = "running" =>
             ENABLED (\E r \in BedrockResults : BedrockThread(r)))

\* Both threads gave a response, the second after get_status_auto had
\* returned the first: the queue holds nothing of it.
C6_Witness ==
    /\ pc = "returned"
    /\ Len(sent) = 2
    /\ IsOk(sent[1][2])
    /\ IsOk(sent[2][2])
    /\ sent[1][1] = "Bedrock"
    /\ chan = <<>>
    /\ status = Ok(from_bedrock(sent[1][2][2]))

\* C25: get_status_auto returns its Err only when both threads have ended
\* and neither gave a response; after a first Err received it goes on
\* waiting for the other thread, so that it never returns its Err while a
\* thread that will give a response is running.
C25_FailureAfterBoth ==
    /\ [](pc = "returned" /\ IsErr(status) =>
             /\ java_thread = "finished"
             /\ bedrock_thread = "finished"
             /\ \A i \in 1..Len(sent) : ~IsOk(sent[i][2]))
    /\ [][pc = "recv" /\ recvs = 0 /\ chan # <<>> /\ IsErr(chan[1])
          /\ chan' = Tail(chan) =>
             /\ pc' = "recv"
             /\ status' = NoStatus
             /\ recvs' = 1]_vars
    /\ [](pc = "recv" /\ recvs = 1 /\ chan = <<>>
          /\ (java_thread = "running" \/ bedrock_thread = "running") =>
             ~ENABLED Recv)

\* The first thread to end gave an error and the second a response, which
\* get_status_auto returned.
C25_Witness ==
    /\ pc = "returned"
    /\ Len(sent) = 2
    /\ IsErr(sent[1][2])
    /\ IsOk(sent[2][2])
    /\ sent[1][1] = "Bedrock"
    /\ status = Ok(from_java(sent[2][2][2]))

\* get_status_auto where each probe ends, mcping's timeout seeing to it, and
\* a receive that can complete does.
SpecAutoFair ==
    /\ SpecAuto
    /\ WF_vars(\E r \in JavaResults : JavaThread(r))
    /\ WF_vars(\E r \in BedrockResults : BedrockThread(r))
    /\ WF_vars(Recv)

\* Receives completed since the threads were spawned.
receives == recvs + (IF pc = "returned" /\ IsOk(status) THEN 1 ELSE 0)

\* C20: with each probe ending, get_status_auto returns.  Its receive is
\* not blocked once a response is queued or both threads have ended, it
\* returns only after a response or after both threads have ended, and it
\* completes at most two receives.
C20_AutoReturns ==
    /\ (pc = "recv") ~> (pc = "returned")
    /\ [](pc = "recv"
          /\ (chan # <<>> \/ (java_thread = "finished" /\ bedrock_thread = "finished"))
          => ENABLED Recv)
    /\ [](pc = "returned" =>
             \/ \E i \in 1..Len(sent) : IsOk(sent[i][2])
             \/ Len(sent) = 2)
    /\ [](receives <= 2)

\* A thread panicked, the other gave an error: the second receive ended on
\* the dropped Senders and get_status_auto returned its Err.
C20_Witness ==
    /\ pc = "returned"
    /\ status = Err(NeitherThread)
    /\ recvs = 2
    /\ \E i \in 1..Len(sent) : sent[i][2] = Thread_panicked
    /\ \E i \in 1..Len(sent) : IsErr(sent[i][2])

----------------------------------------------------------------------------
(* week_stats.rs, method by method: a PingStatsOnDisk value and the calls  *)
(* made on it.                                                             *)

\* Entries a stored history holds at most, before a call adds one.
MaxEntries == 2

\* The moment of the tests, 2021-02-14 08:12:43 UTC, and its midnight.
SecondsFromMidnight == 8 * 3600 + 12 * 60 + 43
Midnight == Epoch - SecondsFromMidnight

\* Keys on both sides of the cutoff of trim_outdated and of the ends of the
\* ranges of week_stats.
StatsKeys ==
    {Epoch - days(TrimDays) - 1, Epoch - days(TrimDays),
     Midnight - days(7) - 1, Midnight - days(7),
     Midnight - days(6) - 1, Midnight - days(6),
     Midnight - 1, Midnight, Epoch, Epoch + 1}

\* Player counts a server may report: online above max, negative, largest.
StatsEntries ==
    {[online |-> 3, max |-> 5], [online |-> 2, max |-> 1],
     [online |-> -3, max |-> -1], [online |-> I64Max, max |-> I64Max]}

Histories ==
    UNION {[keys -> StatsEntries] :
              keys \in {k \in SUBSET StatsKeys : Cardinality(k) <= MaxEntries}}

\* The ends of the ranges asked of range_stats.
RangeEnds == {Midnight - days(7), Midnight - days(6), Midnight, Epoch}

InitStats ==
    /\ InitCalls
    /\ ping_stats \in Histories
    /\ op = NoOp

\* The value is changed by trim_outdated and add_data and then asked for
\* its statistics, as determine_week_stats does: a behaviour ends with the
\* statistics.
Asked == op.name \in {"range_stats", "week_stats", "determine_week_stats"}

\* data.trim_outdated(now)
TrimOutdated(now) ==
    /\ ~Asked
    /\ ping_stats' = trim_outdated(ping_stats, now)
    /\ op' = [name |-> "trim_outdated", now |-> now, before |-> ping_stats]
    /\ UNCHANGED <<files, pc, race, tracked>>

\* data.add_data(now, current_online, current_max)
AddData(now, entry) ==
    /\ ~Asked
    /\ Cardinality(DOMAIN ping_stats) <= MaxEntries
    /\ ping_stats' = add_data(ping_stats, now, entry.online, entry.max)
    /\ op' = [name |-> "add_data", now |-> now, entry |-> entry,
              before |-> ping_stats]
    /\ UNCHANGED <<files, pc, race, tracked>>

\* data.range_stats(lo..hi) or data.range_stats(lo..=hi), in a build with or
\* without overflow checks.
CallRangeStats(lo, hi, closed, overflow_checks) ==
    /\ ~Asked
    /\ lo <= hi
    /\ \E panics \in {overflow_checks
                        /\ range_stats_overflows(ping_stats, lo, hi, closed)} :
          op' = [name |-> "range_stats", lo |-> lo, hi |-> hi, closed |-> closed,
                 panicked |-> panics,
                 ret |-> IF panics THEN Panic
                         ELSE range_stats(ping_stats, lo, hi, closed)]
    /\ UNCHANGED <<ping_stats, files, pc, race, tracked>>

\* data.week_stats(now_timestamp, seconds_from_midnight)
CallWeekStats(now_timestamp, seconds_from_midnight, overflow_checks) ==
    /\ ~Asked
    /\ \E panics \in {overflow_checks
                        /\ week_stats_overflows(ping_stats, now_timestamp,
                                                seconds_from_midnight)} :
          op' = [name |-> "week_stats", now_timestamp |-> now_timestamp,
                 seconds_from_midnight |-> seconds_from_midnight,
                 panicked |-> panics,
                 ret |-> IF panics THEN Panic
                         ELSE week_stats(ping_stats, now_timestamp,
                                         seconds_from_midnight)]
    /\ UNCHANGED <<ping_stats, files, pc, race, tracked>>

\* determine_week_stats on the file that holds the value, the clock read at
\* now_local and then at now_utc.
CallDetermineWeekStats(now_local, now_utc, offset, entry) ==
    /\ ~Asked
    /\ Cardinality(DOMAIN ping_stats) <= MaxEntries
    /\ \E r \in {determine_week_stats(File(to_string(PingStatsOnDisk(ping_stats))),
                                      now_local, now_utc, offset,
                                      entry.online, entry.max)} :
          /\ ping_stats' = from_slice(r[2][2])[2].ping_history
          /\ op' = [name |-> "determine_week_stats", now_local |-> now_local,
                    now_utc |-> now_utc, offset |-> offset, entry |-> entry,
                    before |-> ping_stats, ret |-> r[1]]
    /\ UNCHANGED <<files, pc, race, tracked>>

NextStats ==
    \/ TrimOutdated(Epoch)
    \/ \E entry \in StatsEntries : AddData(Epoch, entry)
    \/ \E lo \in RangeEnds, hi \in RangeEnds, closed \in BOOLEAN,
          overflow_checks \in BOOLEAN :
          CallRangeStats(lo, hi, closed, overflow_checks)
    \/ \E seconds_from_midnight \in {0, SecondsFromMidnight},
          overflow_checks \in BOOLEAN :
          CallWeekStats(Epoch, seconds_from_midnight, overflow_checks)
    \/ \E elapsed \in {0, 1}, offset \in UtcOffsets, entry \in StatsEntries :
          CallDetermineWeekStats(Epoch, Epoch + elapsed, offset, entry)

SpecStats == InitStats /\ [][NextStats]_vars

\* C12: trim_outdated(now) keeps exactly the entries whose key is at least
\* now - 10 days, each as it was, and removes the others; after
\* determine_week_stats no stored key is below its now_utc - 10 days.
C12_TrimKeepsTenDays ==
    /\ op.name = "trim_outdated" =>
           /\ DOMAIN ping_stats =
                  {k \in DOMAIN op.before : k >= op.now - 10 * 24 * 60 * 60}
           /\ \A k \in DOMAIN ping_stats : ping_stats[k] = op.before[k]
    /\ op.name = "determine_week_stats" =>
           \A k \in DOMAIN ping_stats : k >= op.now_utc - 10 * 24 * 60 * 60

\* trim_outdated removed the entry one second older than ten days and kept
\* the entry ten days old.
C12_Witness ==
    /\ op.name = "trim_outdated"
    /\ DOMAIN op.before =
           {op.now - 10 * 24 * 60 * 60 - 1, op.now - 10 * 24 * 60 * 60}
    /\ DOMAIN ping_stats = {op.now - 10 * 24 * 60 * 60}

\* What the statistics of a set of entries are to be: the floor of the mean
\* of online and the maxima of online and of max, over the integers; zeros
\* for no entry.
RECURSIVE Sum(_, _)
Sum(ping_history, keys) ==
    IF keys = {} THEN 0
    ELSE LET k == CHOOSE x \in keys : TRUE
         IN  ping_history[k].online + Sum(ping_history, keys \ {k})

Maximum(S) == CHOOSE x \in S : \A y \in S : y <= x

Floor(a, n) == CHOOSE q \in -(I64Max + 1)..I64Max : q * n <= a /\ a < (q + 1) * n

Combined(ping_history, keys) ==
    IF keys = {}
    THEN [average_online |-> 0, peak_online |-> 0, peak_max |-> 0]
    ELSE [average_online |-> Floor(Sum(ping_history, keys), Cardinality(keys)),
          peak_online |-> Maximum({ping_history[k].online : k \in keys}),
          peak_max |-> Maximum({ping_history[k].max : k \in keys})]

\* The keys of a history in lo..hi, hi included or not.
KeysIn(ping_history, lo, hi, closed) ==
    {k \in DOMAIN ping_history : lo <= k /\ (k < hi \/ (closed /\ k = hi))}

\* Bucket i of 0..7 of a week_stats call: its ends, and its keys.
BucketKeys(ping_history, i, now_timestamp, seconds_from_midnight) ==
    LET midnight == now_timestamp - seconds_from_midnight
    IN  IF i < 7
        THEN KeysIn(ping_history, midnight - (7 - i) * 86400,
                    midnight - (6 - i) * 86400, FALSE)
        ELSE KeysIn(ping_history, midnight, now_timestamp, TRUE)

\* C13: week_stats returns 8 buckets; bucket i of 0..6 is the statistics of
\* exactly the entries in [midnight - (7-i) days, midnight - (6-i) days),
\* bucket 7 of exactly those in [midnight, now], where midnight is now less
\* seconds_from_midnight; the entries of a bucket are combined, the peaks
\* their maxima and the average over all of them.
C13_EightBuckets ==
    op.name = "week_stats" =>
        /\ ~op.panicked
        /\ Len(op.ret.daily_stats) = 8
        /\ \A i \in 0..7 :
               op.ret.daily_stats[i + 1] =
                   Combined(ping_stats,
                            BucketKeys(ping_stats, i, op.now_timestamp,
                                       op.seconds_from_midnight))

\* The buckets of week_stats are range_stats over exactly the keys of C13's
\* ranges, whenever week_stats returns.
WeekStatsRanges ==
    op.name = "week_stats" /\ ~op.panicked =>
        /\ Len(op.ret.daily_stats) = 8
        /\ \A i \in 0..7 :
               op.ret.daily_stats[i + 1] =
                   RangeStats(ping_stats,
                              BucketKeys(ping_stats, i, op.now_timestamp,
                                         op.seconds_from_midnight))

\* C14: range_stats returns the floor of the sum of online over the entries
\* in the range divided by their number, and the maxima of online and of max
\* over them, for any counts; zeros when the range holds no entry.
C14_RangeStats ==
    op.name = "range_stats" =>
        /\ ~op.panicked
        /\ op.ret = Combined(ping_stats, KeysIn(ping_stats, op.lo, op.hi, op.closed))

\* range_stats truncated a negative mean toward zero; it wrapped a sum; it
\* panicked on a sum.
RangeStatsTruncates ==
    /\ op.name = "range_stats"
    /\ ~op.panicked
    /\ op.ret.average_online = 0
    /\ Sum(ping_stats, KeysIn(ping_stats, op.lo, op.hi, op.closed)) = -1
RangeStatsWraps ==
    /\ op.name = "range_stats"
    /\ ~op.panicked
    /\ op.ret.average_online = -1
    /\ Sum(ping_stats, KeysIn(ping_stats, op.lo, op.hi, op.closed)) = 2 * I64Max
RangeStatsPanics == op.name = "range_stats" /\ op.panicked

\* C15: the peak_online of a WeekStats is the maximum of the peak_online of
\* its 8 buckets and its peak_max the maximum of their peak_max; the entries
\* older than midnight - 7 days have no part in them: without those entries
\* week_stats returns the same peaks.
C15_GlobalPeaks ==
    op.name = "week_stats" /\ ~op.panicked =>
        LET midnight == op.now_timestamp - op.seconds_from_midnight
            recent == [k \in {t \in DOMAIN ping_stats : t >= midnight - 7 * 86400}
                          |-> ping_stats[k]]
            of_recent == week_stats(recent, op.now_timestamp,
                                    op.seconds_from_midnight)
        IN  /\ op.ret.peak_online =
                   Maximum({op.ret.daily_stats[i].peak_online : i \in 1..8})
            /\ op.ret.peak_max =
                   Maximum({op.ret.daily_stats[i].peak_max : i \in 1..8})
            /\ of_recent.peak_online = op.ret.peak_online
            /\ of_recent.peak_max = op.ret.peak_max

\* The largest count of the history is older than the first bucket, and the
\* peaks are those of an entry of today.
C15_Witness ==
    /\ op.name = "week_stats"
    /\ ~op.panicked
    /\ op.seconds_from_midnight = SecondsFromMidnight
    /\ DOMAIN ping_stats = {Midnight - 7 * 86400 - 1, op.now_timestamp}
    /\ ping_stats[Midnight - 7 * 86400 - 1].online = I64Max
    /\ ping_stats[op.now_timestamp] = [online |-> 3, max |-> 5]
    /\ op.ret.peak_online = 3
    /\ op.ret.peak_max = 5

\* C24: the WeekStats determine_week_stats returns for a sample with
\* online >= 0 and max >= 0 count that sample in the last of the daily
\* stats, today so far, whichever seconds its two readings of the clock give.
C24_SampleCountedToday ==
    op.name = "determine_week_stats"
    /\ op.entry.online >= 0 /\ op.entry.max >= 0 =>
        /\ op.ret[2].daily_stats[8].peak_online >= op.entry.online
        /\ op.ret[2].daily_stats[8].peak_max >= op.entry.max

\* Under SpecSeq: the samples recorded so far for the identity of the call
\* that has returned, and the history they make at the call's second, those
\* older than ten days left out.
samples_of_identity == {x \in seen.samples : x[1] = identity}
history_of_samples ==
    [k \in {x[2] : x \in {y \in samples_of_identity :
                             y[2] >= clock - days(TrimDays)}} |->
        LET x == CHOOSE y \in samples_of_identity : y[2] = k
        IN  [online |-> x[3], max |-> x[4]]]

\* C26: after calls that recorded samples for one identity only, at
\* different seconds, the stored history holds exactly the samples not older
\* than ten days before the last, each as recorded, and the WeekStats of the
\* last call are those of these samples, bucket by bucket.
C26_HistoryDurable ==
    /\ last # NoCall
    /\ Recorded
    /\ seen.samples = samples_of_identity
    /\ Cardinality({x[2] : x \in seen.samples}) = Cardinality(seen.samples)
    => /\ history_after = history_of_samples
       /\ IsOk(last.result) =>
             \A i \in 0..7 :
                stats_of(last.result).daily_stats[i + 1] =
                    Combined(history_of_samples,
                             BucketKeys(history_of_samples, i, last.before.clock,
                                        num_seconds_from_midnight(
                                            last.before.clock, utc_offset)))

\* The second call, a day after the first, returned the first call's sample
\* in yesterday's bucket and keeps both samples.
C26_Witness ==
    /\ last # NoCall
    /\ Recorded
    /\ IsOk(last.result)
    /\ seen.samples = samples_of_identity
    /\ Cardinality(seen.samples) = 2
    /\ DOMAIN history_after = {Epoch, Epoch + days(1)}
    /\ stats_of(last.result).daily_stats[7].peak_online = PlayerCounts[1]

\* C27: a history has one entry a second, and a write in a second that has
\* one overwrites it: after add_data, and after determine_week_stats, the
\* entry of the call's second holds the online and max of the call, and every
\* other entry is as it was (determine_week_stats having left out those
\* older than ten days).
C27_SameSecondOverwrites ==
    /\ op.name = "add_data" =>
          /\ DOMAIN ping_stats = DOMAIN op.before \cup {op.now}
          /\ ping_stats[op.now] = op.entry
          /\ \A k \in DOMAIN op.before \ {op.now} : ping_stats[k] = op.before[k]
    /\ op.name = "determine_week_stats" =>
          /\ DOMAIN ping_stats =
                 {k \in DOMAIN op.before : k >= op.now_utc - days(TrimDays)}
                 \cup {op.now_utc}
          /\ ping_stats[op.now_utc] = op.entry
          /\ \A k \in DOMAIN ping_stats \ {op.now_utc} :
                 ping_stats[k] = op.before[k]

\* add_data in a second that had an entry with a larger online and another
\* max: the entry is the new one.
C27_Witness ==
    /\ op.name = "add_data"
    /\ op.now \in DOMAIN op.before
    /\ op.before[op.now].online > op.entry.online
    /\ op.before[op.now].max # op.entry.max
    /\ Cardinality(DOMAIN ping_stats) = 2
    /\ ping_stats[op.now] = op.entry

\* The buckets of 1..8 in which week_stats counts an entry of key k: those
\* whose peak shows the entry when the history holds nothing else.
counted_in(k, now_timestamp, seconds_from_midnight) ==
    UNION {{i \in 1..8 : daily_stats[i].peak_max = 1} :
              daily_stats \in {week_stats(k :> [online |-> 1, max |-> 1],
                                          now_timestamp,
                                          seconds_from_midnight).daily_stats}}

\* C31: with seconds_from_midnight >= 0, week_stats counts every stored
\* entry in at most one bucket: in exactly one when its key is from midnight
\* less seven days to now, in none when it is older or later; and each bucket
\* returned is the statistics of the entries counted in it.
C31_BucketsPartition ==
    op.name = "week_stats" /\ op.seconds_from_midnight >= 0 =>
        \A counted \in {{<<k, i>> : k \in DOMAIN ping_stats, i \in 1..8} \cap
                         UNION {{k} \X counted_in(k, op.now_timestamp,
                                                  op.seconds_from_midnight) :
                                   k \in DOMAIN ping_stats}} :
            LET midnight == op.now_timestamp - op.seconds_from_midnight
            IN  /\ \A k \in DOMAIN ping_stats :
                      Cardinality({i \in 1..8 : <<k, i>> \in counted}) =
                          IF midnight - 7 * 86400 <= k /\ k <= op.now_timestamp
                          THEN 1 ELSE 0
                /\ ~op.panicked =>
                      \A i \in 1..8 :
                         op.ret.daily_stats[i] =
                             RangeStats(ping_stats,
                                        {k \in DOMAIN ping_stats :
                                            <<k, i>> \in counted})

\* The last second of yesterday and the first of today are stored: the one
\* is in bucket 6 only, the other in bucket 7 only.
C31_Witness ==
    /\ op.name = "week_stats"
    /\ ~op.panicked
    /\ op.seconds_from_midnight = SecondsFromMidnight
    /\ DOMAIN ping_stats = {Midnight - 1, Midnight}
    /\ ping_stats[Midnight - 1].max = 5
    /\ ping_stats[Midnight].max = 1
    /\ op.ret.daily_stats[7].peak_max = 5
    /\ op.ret.daily_stats[8].peak_max = 1

----------------------------------------------------------------------------
(* get_server_status_rust, step by step: two callers that share the data   *)
(* root, each inside its own call, for one server.                         *)

StepAddress == <<"m", ".", "c">>
StepContainer == <<"/", "g">>
StepFolder == server_folder(StepContainer, StepAddress, "Java")

\* What the probe of a call ends with: a response with or without a
\* favicon, or an error.
StepStatuses ==
    {st \in {ph.status : ph \in JavaPhases} :
        \/ IsErr(st) /\ st[2] = <<"DnsLookupFailed">>
        \/ /\ IsOk(st)
           /\ st[2].favicon \in {None, Some(<<"abase64string">>)}
           /\ st[2].motd = Motd}

\* The step after the probe, with the cached favicon never written.
after_probe_uncached(st) == IF IsOk(st) THEN "load_stats" ELSE "read_cache"

\* The step after the probe: the arm of the match.
after_probe(st) == IF IsOk(st) THEN "write_cache" ELSE "read_cache"

\* The history determine_week_stats works on, read again as it writes.
stats_input_fresh(p) == read(week_stats_file, StepFolder)

\* The history determine_week_stats works on: `data`, as read from the file.
stats_input(p) == proc[p].stats_file

\* The call begins: the arguments pass, the folder is made.
Enter(p, always_use_identicon) ==
    /\ proc[p].pc = "idle"
    /\ ncalls < MaxCalls
    /\ ncalls' = ncalls + 1
    /\ validate(StepAddress, StepContainer) = None
    /\ folders' = folders \cup {StepFolder}
    /\ proc' = [proc EXCEPT ![p] =
                   [NotCalling EXCEPT
                       !.pc = "probe",
                       !.call = [address |-> StepAddress,
                                 protocol_type |-> "Java",
                                 always_use_identicon |-> always_use_identicon,
                                 app_group_container |-> StepContainer]]]
    /\ UNCHANGED <<cached_favicon_file, week_stats_file, clock, utc_offset,
                   pc, last, seen>>
    /\ UNCHANGED race
    /\ UNCHANGED object

\* mcping_get_status_wrapper returns.
Probe(p, st) ==
    /\ proc[p].pc = "probe"
    /\ st \in StepStatuses
    /\ proc' = [proc EXCEPT ![p].st = st,
                            ![p].pc = after_probe(st),
                            ![p].done = Append(@, "probe")]
    /\ UNCHANGED <<files, pc, race, object, seen>>

\* "Cache the favicon": fs::write of the CachedFavicon.
WriteCache(p) ==
    /\ proc[p].pc = "write_cache"
    /\ cached_favicon_file' =
           write(cached_favicon_file, StepFolder,
                 File(to_string(cached_favicon_of(proc[p].st[2]))))
    /\ proc' = [proc EXCEPT ![p].pc = "load_stats",
                            ![p].done = Append(@, "cache write")]
    /\ UNCHANGED <<folders, week_stats_file, clock, utc_offset, pc, last,
                   ncalls, seen>>
    /\ UNCHANGED race
    /\ UNCHANGED object

\* cached_favicon_path.exists(), fs::read and from_slice: the call returns
\* here with an Err when the file is absent or does not deserialize.
ReadCache(p) ==
    /\ proc[p].pc = "read_cache"
    /\ \E f \in {read(cached_favicon_file, StepFolder)} :
       \E m \in {on_error(proc[p].call, proc[p].st[2], f, Absent, 0, 0,
                          utc_offset)} :
          proc' = [proc EXCEPT
                      ![p].favicon_file = f,
                      ![p].done = Append(@, "cache read"),
                      ![p].pc = IF m.read_clock THEN "load_stats" ELSE "returned",
                      ![p].result = IF m.read_clock THEN @ ELSE m.result]
    /\ UNCHANGED <<files, pc, race, object, seen>>

\* determine_week_stats to its `let mut data`: the clock and the file read.
LoadStats(p) ==
    /\ proc[p].pc = "load_stats"
    /\ proc' = [proc EXCEPT ![p].now = clock,
                            ![p].stats_file = read(week_stats_file, StepFolder),
                            ![p].pc = "store_stats",
                            ![p].done = Append(@, "stats read")]
    /\ UNCHANGED <<files, pc, race, object, seen>>

\* determine_week_stats from trim_outdated to fs::write, and the result of
\* the arm of the match.
StoreStats(p) ==
    /\ proc[p].pc = "store_stats"
    /\ \E m \in {match_status(proc[p].call, proc[p].st, proc[p].favicon_file,
                              stats_input(p), proc[p].now, proc[p].now,
                              utc_offset)} :
          /\ week_stats_file' = write(week_stats_file, StepFolder, m.stats_file)
          /\ proc' = [proc EXCEPT ![p].pc = "returned",
                                  ![p].result = m.result,
                                  ![p].done = Append(@, "stats write")]
    /\ UNCHANGED <<folders, cached_favicon_file, clock, utc_offset, pc, last,
                   ncalls, seen>>
    /\ UNCHANGED race
    /\ UNCHANGED object

\* The caller takes the result.
Leave(p) ==
    /\ proc[p].pc = "returned"
    /\ proc' = [proc EXCEPT ![p] = NotCalling]
    /\ UNCHANGED <<files, pc, race, object, seen>>

\* Time passes, whatever the callers are at.
Pass(t) ==
    /\ t \in Instants
    /\ t > clock
    /\ clock' = t
    /\ UNCHANGED <<folders, cached_favicon_file, week_stats_file, utc_offset,
                   pc, last, ncalls>>
    /\ UNCHANGED race
    /\ UNCHANGED object
    /\ UNCHANGED tracked

NextSteps ==
    \/ \E p \in Procs, i \in BOOLEAN : Enter(p, i)
    \/ \E p \in Procs, st \in StepStatuses : Probe(p, st)
    \/ \E p \in Procs : WriteCache(p)
    \/ \E p \in Procs : ReadCache(p)
    \/ \E p \in Procs : LoadStats(p)
    \/ \E p \in Procs : StoreStats(p)
    \/ \E p \in Procs : Leave(p)
    \/ \E t \in Instants : Pass(t)

SpecSteps == Init /\ [][NextSteps]_vars

----------------------------------------------------------------------------
(* Properties of the steps of a call, under SpecSteps *)

\* In the steps a caller has done, every a comes before every b.
Before(p, a, b) ==
    \A i, j \in 1..Len(proc[p].done) :
        proc[p].done[i] = a /\ proc[p].done[j] = b => i < j

Returned(p) == proc[p].pc = "returned"
ReturnedOk(p) == Returned(p) /\ IsOk(proc[p].result)

\* C21: the steps of a call come in the order cache read, probe, cache
\* write, stats update, none before an earlier one is over.
C21_StepsInOrder ==
    \A p \in Procs :
        /\ Before(p, "cache read", "probe")
        /\ Before(p, "probe", "cache write")
        /\ Before(p, "cache write", "stats read")
        /\ Before(p, "stats read", "stats write")

\* C21, amended: the probe comes first; the cache is written after a
\* response and read after an error, and no call does both; the stats update
\* comes last.  A call that ends Online has done probe, cache write, stats
\* update; one that ends Offline, probe, cache read, stats update; one that
\* ends with the error of its probe, probe, cache read.
C21_ProbeFirst ==
    \A p \in Procs :
        /\ Before(p, "probe", "cache read")
        /\ Before(p, "probe", "cache write")
        /\ Before(p, "cache read", "stats read")
        /\ Before(p, "cache write", "stats read")
        /\ Before(p, "stats read", "stats write")
        /\ Returned(p) =>
              proc[p].done =
                 IF IsOk(proc[p].st)
                 THEN <<"probe", "cache write", "stats read", "stats write">>
                 ELSE IF IsOk(proc[p].result)
                      THEN <<"probe", "cache read", "stats read", "stats write">>
                      ELSE <<"probe", "cache read">>

\* A call ended Offline: its probe failed before it read the cached favicon
\* another call had written.
C21_Witness ==
    \E p \in Procs :
        /\ ReturnedOk(p)
        /\ proc[p].result[2][1] = "Offline"
        /\ proc[p].done = <<"probe", "cache read", "stats read", "stats write">>

\* The history of a week stats file.
history_of(file) ==
    IF Exists(file) /\ IsOk(from_slice(file[2]))
    THEN from_slice(file[2])[2].ping_history
    ELSE EmptyHistory

\* The sample a call gives determine_week_stats.
sample_of(p) ==
    IF IsOk(proc[p].st)
    THEN [online |-> proc[p].st[2].online, max |-> proc[p].st[2].max]
    ELSE [online |-> 0, max |-> 0]

\* C22: a call rewrites the week stats file whole from the history it read
\* itself, whatever another call has written since: what it read, less the
\* entries older than ten days, with its sample.  So two calls at once can
\* both return Ok with the sample of one of them lost.
C22_LastWriterWins ==
    [][\A p \in Procs :
          proc[p].pc = "store_stats" /\ proc'[p].pc = "returned" =>
             LET mine == history_of(proc[p].stats_file)
                 now == proc[p].now
                 kept == {k \in DOMAIN mine : k >= now - days(TrimDays)}
                 after == history_of(read(week_stats_file', StepFolder))
             IN  /\ DOMAIN after = kept \cup {now}
                 /\ after[now] = sample_of(p)
                 /\ \A k \in kept \ {now} : after[k] = mine[k]]_vars

\* Both calls have returned Ok, with samples at different seconds a day
\* apart, and the stored history holds the sample of one of them only.
C22_Witness ==
    \E p, q \in Procs :
        /\ ReturnedOk(p)
        /\ ReturnedOk(q)
        /\ proc[q].now = proc[p].now + days(1)
        /\ DOMAIN history_of(read(week_stats_file, StepFolder)) = {proc[p].now}

====
